---- MODULE Spec2Model ----
(***************************************************************************)
(* Model of train.py: main() -> setup() -> resume_training() -> train(),   *)
(* with save_model()/valid() called from the training loop, and the batch  *)
(* size handed to utils/data_utils.get_loader().                           *)
(*                                                                         *)
(* Spec and SpecConfig model one process, whose rank is the input           *)
(* local_rank; SpecDist models the ranks of a distributed run of train()   *)
(* and their collective calls.                                             *)
(* Library calls are modelled by their effect on the state the script can  *)
(* observe: a model is the version number of its weights (the number of    *)
(* optimizer updates applied to the pretrained weights), an optimizer is   *)
(* the number of step() calls folded into its state, a scheduler is its    *)
(* step count (last_epoch).  A validation accuracy is a level 0..MaxAcc.   *)
(* The module-level flag wnb (wandb logging) is taken to be false.         *)
(***************************************************************************)
EXTENDS Integers, FiniteSets, Sequences, TLC

\* ---- bounds of the model ----
MaxSteps == 3         \* --num_steps, --eval_every range over 1..MaxSteps
MaxGas == 2           \* --gradient_accumulation_steps ranges over 1..MaxGas
MaxBatches == 3       \* len(train_loader) ranges over 1..MaxBatches
MaxBatchSize == 3     \* --train_batch_size ranges over 1..MaxBatchSize
MaxAcc == 2           \* validation accuracy levels 0..MaxAcc
MaxRuns == 2          \* invocations of main() on the same output_dir
MaxScaleExp == 2      \* --loss_scale ranges over 0 and 2^0 .. 2^MaxScaleExp

\* Python's None, for an object that is absent
None == [none |-> TRUE]

\* no exception raised
NoError == "none"

\* choices of --dataset accepted by the parser (train.py:347) plus one name
\* outside them, as setup() can be handed by a caller
Datasets == {"dogs", "CUB", "nabirds", "INat2017", "cars"}

\* the default of --dataset
DefaultDataset == "CUB"

\* the default of --train_batch_size
DefaultTrainBatchSize == 4

\* ranks of the modelled distributed run (torch.distributed.get_world_size())
WorldSize == 2

\* --local_rank: -1 (not distributed) or a rank of the distributed run
Ranks == {-1} \cup (0 .. WorldSize - 1)

VARIABLES
    argv,          \* the command line main() parses
    n_batches,     \* len(train_loader): minibatches per epoch on this rank
    args,          \* the parsed namespace (mutated by resume_training, train)
    pc,            \* position of the process in main()/train()
    exc,           \* the exception that ended main(), or None
    model,         \* the model object (None before setup)
    optimizer,     \* the optimizer object or None
    scheduler,     \* the scheduler object or None
    file,          \* <output_dir>/<name>_checkpoint.bin, or None if absent
    step,          \* index of the minibatch within the epoch (enumerate)
    global_step,   \* train(): number of optimizer updates of this call
    best_acc,      \* train(): best validation accuracy so far
    grad_count,    \* backward passes accumulated in .grad since zero_grad
    applied,       \* grad_count consumed by the last optimizer.step() (0: none yet)
    evals,         \* (global_step, accuracy) scalars valid() wrote this run
    n_saved,       \* save_model calls of this run
    loaded,        \* TRUE iff this run read the checkpoint file (torch.load)
    logged_total,  \* the logged "Total train batch size", 0 before it is logged
    loader_bs,     \* batch_size given to the train DataLoader, 0 before
    loss_scaler,   \* amp._amp_state.loss_scalers[0], None without amp
    runs,          \* invocations of main() so far
    dpc,           \* distributed run: position of each rank in train()
    dstep,         \* distributed run: each rank's minibatch index (step)
    dgs,           \* distributed run: each rank's global_step
    calls          \* distributed run: the collective calls each rank has made

vars == <<argv, n_batches, args, pc, exc, model, optimizer, scheduler, file, step,
          global_step, best_acc, grad_count, applied, evals, n_saved, loaded,
          logged_total, loader_bs, loss_scaler, runs, dpc, dstep, dgs, calls>>

\* the per-rank state of the distributed run
distVars == <<dpc, dstep, dgs, calls>>

\* the ranks of the distributed run
DRanks == 0 .. WorldSize - 1

\* ---- library objects ----

\* hasattr(model, 'module')
HasModule(m) == "module" \in DOMAIN m

\* the bare network under an optional DDP wrapper
Unwrapped(m) == IF HasModule(m) THEN m.module ELSE m

\* nn.Module.state_dict(): parameter name -> value; a wrapper prefixes the
\* names of the wrapped module with "module."
state_dict(m) ==
    IF HasModule(m) THEN [k \in {"module.weight"} |-> m.module.w]
    ELSE [k \in {"weight"} |-> m.w]

\* nn.Module.load_state_dict (strict): the keys must be the module's own
CanLoad(m, sd) == DOMAIN sd = DOMAIN state_dict(m)

load_state_dict(m, sd) ==
    IF HasModule(m) THEN [m EXCEPT !.module.w = sd["module.weight"]]
    ELSE [m EXCEPT !.w = sd["weight"]]

\* DDP(model, ...)
DDP(m) == [module |-> m]

\* optimizer.step() on the model's parameters
StepWeights(m) ==
    IF HasModule(m) THEN [m EXCEPT !.module.w = @ + 1]
    ELSE [m EXCEPT !.w = @ + 1]

NewOptimizer == [steps |-> 0]
NewScheduler == [last_epoch |-> 0]

\* amp opt levels accepted by --fp16_opt_level
OptLevels == {"O0", "O1", "O2", "O3"}

\* the default of --fp16_opt_level
DefaultOptLevel == "O2"

\* the default of --loss_scale
DefaultLossScale == 0

\* values of --loss_scale: 0 and positive powers of 2
LossScales == {0} \cup {2 ^ k : k \in 0 .. MaxScaleExp}

\* the value train() writes into the loss scaler, 2**20
ForcedLossScale == 1048576

\* amp.initialize(models, optimizers, opt_level) with no loss_scale argument:
\* the scaler takes the opt level's default, dynamic scaling from 2**16 for
\* O1 and O2, the static scale 1 for O0 and O3
amp_initialize(opt_level) ==
    IF opt_level \in {"O1", "O2"}
    THEN [dynamic |-> TRUE, loss_scale |-> 2 ^ 16]
    ELSE [dynamic |-> FALSE, loss_scale |-> 1]

\* ---- train.py functions ----

\* train(): the loss scaler after train.py:223-227; a is args
AmpLossScaler(a) ==
    [amp_initialize(a.fp16_opt_level) EXCEPT !.loss_scale = ForcedLossScale]

\* setup(): the dataset -> num_classes table (train.py:95-104); 0 stands for
\* the else branch, which raises
num_classes(dataset) ==
    CASE dataset = "dogs" -> 120
      [] dataset = "CUB" -> 200
      [] dataset = "nabirds" -> 555
      [] dataset = "INat2017" -> 5089
      [] OTHER -> 0

\* setup() with the else branch falling back to the default dataset's head
setup_NoRaise(a) ==
    [exc |-> NoError,
     model |-> [w |-> 0,
                num_classes |-> IF num_classes(a.dataset) = 0 THEN 200
                                ELSE num_classes(a.dataset)]]

\* setup(args): raises for an unknown dataset, else constructs the model with
\* num_classes outputs and loads the pretrained weights (version 0) into it
setup(a) ==
    IF num_classes(a.dataset) = 0
    THEN [exc |-> "Exception", model |-> None]
    ELSE [exc |-> NoError,
          model |-> [w |-> 0, num_classes |-> num_classes(a.dataset)]]

\* save_model() without the unwrapping of model.module
save_model_NoUnwrap(a, m, opt, sch, gs, test_best_acc) ==
    [model_state_dict |-> state_dict(m),
     optimizer_state_dict |-> opt,
     scheduler_state_dict |-> sch,
     global_step |-> gs,
     test_best_acc |-> test_best_acc]

\* save_model(): the dictionary torch.save writes to the checkpoint file
\* (the 'args' entry, which nothing reads back, is left out)
save_model(a, m, opt, sch, gs, test_best_acc) ==
    LET model_to_save == IF HasModule(m) THEN m.module ELSE m
    IN [model_state_dict |-> state_dict(model_to_save),
        optimizer_state_dict |-> opt,
        scheduler_state_dict |-> sch,
        global_step |-> gs,
        test_best_acc |-> test_best_acc]

\* resume_training() returning its arguments when there is no checkpoint file
resume_training_Silent(a, m, opt, sch, f) ==
    IF f = None
    THEN [exc |-> NoError, read |-> FALSE, args |-> a, model |-> m,
          optimizer |-> opt, scheduler |-> sch, test_best_acc |-> 0]
    ELSE [exc |-> NoError, read |-> TRUE,
          args |-> [a EXCEPT !.start_step = f.global_step],
          model |-> load_state_dict(m, f.model_state_dict),
          optimizer |-> f.optimizer_state_dict,
          scheduler |-> f.scheduler_state_dict,
          test_best_acc |-> f.test_best_acc]

\* resume_training(): f is the content of the checkpoint file (None: no file).
\* read: torch.load was executed.  The last case is the return value.
resume_training(a, m, opt, sch, f) ==
    IF f = None
    THEN [exc |-> "FileNotFoundError", read |-> FALSE, args |-> a, model |-> m,
          optimizer |-> opt, scheduler |-> sch]
    ELSE IF ~CanLoad(m, f.model_state_dict)
    THEN [exc |-> "RuntimeError", read |-> TRUE, args |-> a, model |-> m,
          optimizer |-> opt, scheduler |-> sch]
    ELSE [exc |-> NoError, read |-> TRUE,
          args |-> [a EXCEPT !.start_step = f.global_step],
          model |-> load_state_dict(m, f.model_state_dict),
          optimizer |-> f.optimizer_state_dict,
          scheduler |-> f.scheduler_state_dict,
          test_best_acc |-> f.test_best_acc]

\* train(): the per-minibatch size handed to get_loader (train.py:209)
PerBatchSize(a) == a.train_batch_size \div a.gradient_accumulation_steps

\* train(): the logged "Total train batch size" (train.py:236-238); a is args
\* after line 209
TotalTrainBatchSize(a) ==
    a.train_batch_size * a.gradient_accumulation_steps
        * (IF a.local_rank # -1 THEN WorldSize ELSE 1)

\* train(): the minibatch closes an accumulation window (train.py:288)
IsUpdateStep(s, a) == (s + 1) % a.gradient_accumulation_steps = 0

\* the validation guard without the rank test
ShouldValidate_AnyRank(gs, a) == gs % a.eval_every = 0

\* train(): the validation guard (train.py:306)
ShouldValidate(gs, a) == gs % a.eval_every = 0 /\ a.local_rank \in {-1, 0}

\* train(): checkpoint only on a strictly better accuracy (train.py:308)
ShouldSave(accuracy, best) == accuracy > best

\* train(): the value save_model is given as test_best_acc (train.py:309)
SavedBestAcc(accuracy, best) == best

\* train(): the break test of both loops (train.py:314, 331)
ShouldBreak(gs, a) == gs % a.num_steps = 0

\* train(): the step counter the loop starts from (train.py:244)
InitialGlobalStep(a) == 0

\* ---- the state machine ----

\* parser.parse_args(): the namespace holds the flags of the command line
ParsedArgs(cl) == cl

\* --start_step: 0 (fresh run) or positive (resume); every positive value is
\* treated alike, resume_training overwrites it
StartSteps == {0, 1}

\* the state main() starts in, for a set of command lines and a set of
\* loader lengths; no checkpoint file exists yet
InitState(commandLines, loaderLengths) ==
    /\ argv \in commandLines
    /\ n_batches \in loaderLengths
    /\ args = ParsedArgs(argv)
    /\ pc = "main"
    /\ exc = NoError
    /\ model = None
    /\ optimizer = None
    /\ scheduler = None
    /\ file = None
    /\ step = 0
    /\ global_step = 0
    /\ best_acc = 0
    /\ grad_count = 0
    /\ applied = 0
    /\ evals = {}
    /\ n_saved = 0
    /\ loaded = FALSE
    /\ logged_total = 0
    /\ loader_bs = 0
    /\ loss_scaler = None
    /\ runs = 1
    /\ dpc = [r \in DRanks |-> "get_loader"]
    /\ dstep = [r \in DRanks |-> 0]
    /\ dgs = [r \in DRanks |-> 0]
    /\ calls = [r \in DRanks |-> <<>>]

\* training runs: every schedule of the loop (steps, evaluation period,
\* accumulation, loader length, rank, resume flag) on the default dataset with
\* the default total batch size
Init ==
    InitState([dataset : {DefaultDataset},
               train_batch_size : {DefaultTrainBatchSize},
               eval_every : 1 .. MaxSteps,
               num_steps : 1 .. MaxSteps,
               local_rank : Ranks,
               gradient_accumulation_steps : 1 .. MaxGas,
               start_step : StartSteps,
               fp16 : {FALSE},
               fp16_opt_level : {DefaultOptLevel},
               loss_scale : {DefaultLossScale}],
              1 .. MaxBatches)

\* configurations: every dataset name, total batch size, accumulation, rank,
\* resume flag and mixed-precision setting, on the longest schedule with one
\* evaluation at its end
InitConfig ==
    InitState([dataset : Datasets,
               train_batch_size : 1 .. MaxBatchSize,
               eval_every : {MaxSteps},
               num_steps : {MaxSteps},
               local_rank : Ranks,
               gradient_accumulation_steps : 1 .. MaxGas,
               start_step : StartSteps,
               fp16 : BOOLEAN,
               fp16_opt_level : OptLevels,
               loss_scale : LossScales],
              {MaxBatches})

trainVars == <<step, global_step, best_acc, grad_count, applied, evals, n_saved,
               logged_total, loader_bs, loss_scaler>>

\* main(), train.py:439: args, model = setup(args)
Setup ==
    /\ pc = "main"
    /\ LET r == setup(args)
       IN /\ model' = r.model
          /\ exc' = r.exc
          /\ pc' = IF r.exc # NoError THEN "raised" ELSE "resume"
    /\ UNCHANGED <<argv, n_batches, args, optimizer, scheduler, file, loaded,
                   runs, trainVars, distVars>>

\* main(), train.py:441-449: with start_step > 0 build optimizer and
\* scheduler and call resume_training; else leave both None
Resume ==
    /\ pc = "resume"
    /\ IF args.start_step > 0
       THEN LET r == resume_training(args, model, NewOptimizer, NewScheduler, file)
            IN /\ exc' = r.exc
               /\ loaded' = r.read
               /\ model' = r.model
               /\ optimizer' = r.optimizer
               /\ scheduler' = r.scheduler
               /\ IF r.exc # NoError
                  THEN /\ pc' = "raised"
                       /\ args' = r.args
                  ELSE /\ pc' = "train"
                       /\ args' = ("test_best_acc" :> r.test_best_acc) @@ r.args
       ELSE /\ pc' = "train"
            /\ UNCHANGED <<exc, loaded, model, optimizer, scheduler, args>>
    /\ UNCHANGED <<argv, n_batches, file, runs, trainVars, distVars>>

\* train(), train.py:204-244: everything before the while loop.  A DataLoader
\* built with batch_size 0 raises ValueError (get_loader, data_utils.py:209).
TrainBegin ==
    /\ pc = "train"
    /\ LET a1 == [args EXCEPT !.train_batch_size = PerBatchSize(args)]
       IN /\ args' = a1
          /\ loader_bs' = a1.train_batch_size
          /\ IF a1.train_batch_size = 0
             THEN /\ pc' = "raised"
                  /\ exc' = "ValueError"
                  /\ UNCHANGED <<model, optimizer, scheduler, logged_total,
                                 loss_scaler>>
             ELSE /\ pc' = "loop"
                  /\ exc' = exc
                  /\ optimizer' = IF optimizer = None THEN NewOptimizer ELSE optimizer
                  /\ scheduler' = IF scheduler = None THEN NewScheduler ELSE scheduler
                  /\ model' = IF a1.local_rank # -1 THEN DDP(model) ELSE model
                  /\ loss_scaler' = IF a1.fp16 THEN AmpLossScaler(a1) ELSE loss_scaler
                  /\ logged_total' = TotalTrainBatchSize(a1)
    /\ grad_count' = 0
    /\ global_step' = InitialGlobalStep(args)
    /\ best_acc' = 0
    /\ step' = 0
    /\ UNCHANGED <<argv, n_batches, file, loaded, runs, applied, evals, n_saved,
                   distVars>>

\* the for loop moves on to the next minibatch, or is exhausted
NextBatch ==
    IF step + 1 < n_batches
    THEN pc' = "loop" /\ step' = step + 1
    ELSE pc' = "epoch_end" /\ step' = step

\* train(), train.py:256-315: one iteration of the for loop over the loader
TrainBatch ==
    /\ pc = "loop"
    /\ IF ~IsUpdateStep(step, args)
       THEN /\ grad_count' = grad_count + 1
            /\ NextBatch
            /\ UNCHANGED <<model, optimizer, scheduler, global_step, applied,
                           evals, file, n_saved, best_acc>>
       ELSE LET m1 == StepWeights(model)
                o1 == [optimizer EXCEPT !.steps = @ + 1]
                s1 == [scheduler EXCEPT !.last_epoch = @ + 1]
                gs == global_step + 1
            IN /\ applied' = grad_count + 1
               /\ grad_count' = 0
               /\ model' = m1
               /\ optimizer' = o1
               /\ scheduler' = s1
               /\ global_step' = gs
               /\ IF ShouldValidate(gs, args)
                  THEN \E accuracy \in 0 .. MaxAcc :
                         /\ evals' = evals \cup {<<gs, accuracy>>}
                         /\ IF ShouldSave(accuracy, best_acc)
                            THEN /\ file' = save_model(args, m1, o1, s1, gs,
                                                       SavedBestAcc(accuracy, best_acc))
                                 /\ n_saved' = n_saved + 1
                                 /\ best_acc' = accuracy
                            ELSE UNCHANGED <<file, n_saved, best_acc>>
                  ELSE UNCHANGED <<evals, file, n_saved, best_acc>>
               /\ IF ShouldBreak(gs, args)
                  THEN pc' = "epoch_end" /\ step' = step
                  ELSE NextBatch
    /\ UNCHANGED <<argv, n_batches, args, exc, loaded, runs, logged_total, loader_bs,
                   loss_scaler, distVars>>

\* train(), train.py:317-332: after the for loop (train accuracy, barrier,
\* all-reduce, losses.reset) the while loop ends or starts the next epoch
EpochEnd ==
    /\ pc = "epoch_end"
    /\ IF ShouldBreak(global_step, args)
       THEN pc' = "done" /\ step' = step
       ELSE pc' = "loop" /\ step' = 0
    /\ UNCHANGED <<argv, n_batches, args, exc, model, optimizer, scheduler, file,
                   global_step, best_acc, grad_count, applied, evals, n_saved,
                   loaded, logged_total, loader_bs, loss_scaler, runs, distVars>>

\* the script is started again on the same output_dir, with the same flags
\* except --start_step; the checkpoint file is what persists
Restart ==
    /\ pc \in {"done", "raised"}
    /\ runs < MaxRuns
    /\ runs' = runs + 1
    /\ \E ss \in StartSteps : argv' = [argv EXCEPT !.start_step = ss]
    /\ args' = ParsedArgs(argv')
    /\ pc' = "main"
    /\ exc' = NoError
    /\ model' = None
    /\ optimizer' = None
    /\ scheduler' = None
    /\ step' = 0
    /\ global_step' = 0
    /\ best_acc' = 0
    /\ grad_count' = 0
    /\ applied' = 0
    /\ evals' = {}
    /\ n_saved' = 0
    /\ loaded' = FALSE
    /\ logged_total' = 0
    /\ loader_bs' = 0
    /\ loss_scaler' = None
    /\ UNCHANGED <<n_batches, file, distVars>>

Next == Setup \/ Resume \/ TrainBegin \/ TrainBatch \/ EpochEnd \/ Restart

Spec == Init /\ [][Next]_vars

SpecConfig == InitConfig /\ [][Next]_vars

\* ---- the distributed run: WorldSize processes execute train() ----
\* Every rank runs the same script on the same command line but its own
\* --local_rank, and its loader yields the same number of minibatches.  A
\* collective call (barrier, broadcast, all-reduce) returns on a rank once
\* every rank has made the same call at the same position of its sequence of
\* collective calls; until then the rank is blocked in it.

\* args of rank r
RankArgs(r) == [args EXCEPT !.local_rank = r]

\* rank r is inside its latest collective call, which some rank has not made
\* yet or has answered with a different collective
Blocked(r) ==
    LET k == Len(calls[r])
    IN k > 0 /\ \E q \in DRanks : Len(calls[q]) < k \/ calls[q][k] # calls[r][k]

\* rank r makes the collective call kind
Collective(r, kind) == calls' = [calls EXCEPT ![r] = Append(@, kind)]

\* valid() with an all-reduce of the accuracy over the ranks
ValidCalls_Reduce(log) == Append(log, "all_reduce")

\* valid(): the collective calls of rank 0 after a validation; valid() makes
\* none (train.py:133-200)
ValidCalls(log) == log

\* the state of the single-process runs, which a distributed run leaves alone
singleVars == <<argv, n_batches, args, pc, exc, model, optimizer, scheduler, file,
                step, global_step, best_acc, grad_count, applied, evals, n_saved,
                loaded, logged_total, loader_bs, loss_scaler, runs>>

\* get_loader(): ranks other than 0 wait in a barrier before the datasets are
\* built, rank 0 joins it after building them (data_utils.py:16-18, 202-204)
DGetLoader(r) ==
    /\ dpc[r] = "get_loader"
    /\ ~Blocked(r)
    /\ Collective(r, "barrier")
    /\ dpc' = [dpc EXCEPT ![r] = "ddp"]
    /\ UNCHANGED <<dstep, dgs, singleVars>>

\* train(), train.py:229-244: the DDP wrapper broadcasts rank 0's parameters;
\* global_step = 0
DWrap(r) ==
    /\ dpc[r] = "ddp"
    /\ ~Blocked(r)
    /\ Collective(r, "broadcast")
    /\ dpc' = [dpc EXCEPT ![r] = "loop"]
    /\ dstep' = [dstep EXCEPT ![r] = 0]
    /\ dgs' = [dgs EXCEPT ![r] = InitialGlobalStep(RankArgs(r))]
    /\ UNCHANGED singleVars

\* train(), train.py:256-286: forward and backward pass of one minibatch; the
\* backward pass of the wrapped model all-reduces the gradients
DBackward(r) ==
    /\ dpc[r] = "loop"
    /\ ~Blocked(r)
    /\ Collective(r, "all_reduce_grads")
    /\ dpc' = [dpc EXCEPT ![r] = "update"]
    /\ UNCHANGED <<dstep, dgs, singleVars>>

\* where rank r goes after the body of the for loop, its counter being gs
DAfterBody(r, gs) ==
    IF ShouldBreak(gs, RankArgs(r))
    THEN dpc' = [dpc EXCEPT ![r] = "epoch_end"] /\ dstep' = dstep
    ELSE IF dstep[r] + 1 < n_batches
    THEN dpc' = [dpc EXCEPT ![r] = "loop"] /\ dstep' = [dstep EXCEPT ![r] = @ + 1]
    ELSE dpc' = [dpc EXCEPT ![r] = "epoch_end"] /\ dstep' = dstep

\* train(), train.py:288-315 up to the call of valid()
DUpdate(r) ==
    /\ dpc[r] = "update"
    /\ ~Blocked(r)
    /\ IF ~IsUpdateStep(dstep[r], RankArgs(r))
       THEN /\ dgs' = dgs
            /\ IF dstep[r] + 1 < n_batches
               THEN /\ dpc' = [dpc EXCEPT ![r] = "loop"]
                    /\ dstep' = [dstep EXCEPT ![r] = @ + 1]
               ELSE /\ dpc' = [dpc EXCEPT ![r] = "epoch_end"]
                    /\ dstep' = dstep
       ELSE /\ dgs' = [dgs EXCEPT ![r] = @ + 1]
            /\ IF ShouldValidate(dgs[r] + 1, RankArgs(r))
               THEN dpc' = [dpc EXCEPT ![r] = "valid"] /\ dstep' = dstep
               ELSE DAfterBody(r, dgs[r] + 1)
    /\ UNCHANGED <<calls, singleVars>>

\* train(), train.py:307-315: valid(), save_model and the break test
DValid(r) ==
    /\ dpc[r] = "valid"
    /\ ~Blocked(r)
    /\ calls' = [calls EXCEPT ![r] = ValidCalls(@)]
    /\ DAfterBody(r, dgs[r])
    /\ UNCHANGED <<dgs, singleVars>>

\* train(), train.py:317-320: dist.barrier() after the for loop
DBarrier(r) ==
    /\ dpc[r] = "epoch_end"
    /\ ~Blocked(r)
    /\ Collective(r, "barrier")
    /\ dpc' = [dpc EXCEPT ![r] = "reduce_mean"]
    /\ UNCHANGED <<dstep, dgs, singleVars>>

\* train(), train.py:321; reduce_mean, train.py:84-89: dist.all_reduce
DReduceMean(r) ==
    /\ dpc[r] = "reduce_mean"
    /\ ~Blocked(r)
    /\ Collective(r, "all_reduce")
    /\ dpc' = [dpc EXCEPT ![r] = "epoch_check"]
    /\ UNCHANGED <<dstep, dgs, singleVars>>

\* train(), train.py:322-338: the while loop ends or starts the next epoch
DEpochCheck(r) ==
    /\ dpc[r] = "epoch_check"
    /\ ~Blocked(r)
    /\ IF ShouldBreak(dgs[r], RankArgs(r))
       THEN dpc' = [dpc EXCEPT ![r] = "done"] /\ dstep' = dstep
       ELSE dpc' = [dpc EXCEPT ![r] = "loop"] /\ dstep' = [dstep EXCEPT ![r] = 0]
    /\ UNCHANGED <<dgs, calls, singleVars>>

\* one step of rank r
DRank(r) ==
    \/ DGetLoader(r)
    \/ DWrap(r)
    \/ DBackward(r)
    \/ DUpdate(r)
    \/ DValid(r)
    \/ DBarrier(r)
    \/ DReduceMean(r)
    \/ DEpochCheck(r)

NextDist ==
    \/ \E r \in DRanks : DGetLoader(r)
    \/ \E r \in DRanks : DWrap(r)
    \/ \E r \in DRanks : DBackward(r)
    \/ \E r \in DRanks : DUpdate(r)
    \/ \E r \in DRanks : DValid(r)
    \/ \E r \in DRanks : DBarrier(r)
    \/ \E r \in DRanks : DReduceMean(r)
    \/ \E r \in DRanks : DEpochCheck(r)

\* the command lines of a distributed run, started at rank 0's flags
InitDist ==
    InitState([dataset : {DefaultDataset},
               train_batch_size : {DefaultTrainBatchSize},
               eval_every : 1 .. MaxSteps,
               num_steps : 1 .. MaxSteps,
               local_rank : {0},
               gradient_accumulation_steps : 1 .. MaxGas,
               start_step : {0},
               fp16 : {FALSE},
               fp16_opt_level : {DefaultOptLevel},
               loss_scale : {DefaultLossScale}],
              1 .. MaxBatches)

\* every rank is a running process: a rank that can take a step takes one
SpecDist ==
    /\ InitDist
    /\ [][NextDist]_vars
    /\ \A r \in DRanks : WF_vars(DRank(r))

\* ---- claims ----

\* the process is inside train()'s loops or has returned from train()
InTrain == pc \in {"loop", "epoch_end", "done"}

\* the global steps at which valid() ran in this call of train()
EvalSteps == {e[1] : e \in evals}

\* args.local_rank in [-1, 0]
MainRank == args.local_rank \in {-1, 0}

\* C1: train() performs exactly num_steps optimizer updates: global_step never
\* exceeds num_steps and equals num_steps when train() has returned.
C1_ExactlyNumSteps ==
    /\ global_step <= args.num_steps
    /\ pc = "done" => global_step = args.num_steps

\* C2: a run resumed from a checkpoint saved at step S trains with its step
\* counter starting at S: the counter is never below S, it agrees with the
\* restored scheduler's step count, and stops at num_steps.
C2_ResumeAtCheckpoint ==
    (InTrain /\ loaded) =>
        /\ global_step >= args.start_step
        /\ scheduler.last_epoch = global_step
        /\ global_step <= args.num_steps

\* C3: a checkpoint written by train() stores, as test_best_acc, the validation
\* accuracy measured for the weights it stores (the best accuracy of the run
\* so far) and, as global_step, the number of updates performed.
C3_CheckpointHoldsBest ==
    (InTrain /\ n_saved > 0) =>
        /\ <<file.global_step, file.test_best_acc>> \in evals
        /\ file.test_best_acc = best_acc
        /\ file.global_step <= global_step
        /\ file.model_state_dict["weight"] - Unwrapped(model).w
             = file.global_step - global_step

\* C4: on the rank with local_rank in {-1, 0}, valid() has run at
\* global_step = num_steps when train() returns.
C4_EvalAtEnd ==
    (pc = "done" /\ MainRank) => args.num_steps \in EvalSteps

\* C5: every optimizer update consumes the gradients of exactly
\* gradient_accumulation_steps backward passes, and the gradients are zero
\* whenever a window of gradient_accumulation_steps minibatches starts.
C5_ExactAccumulation ==
    InTrain =>
        /\ global_step > 0 => applied = args.gradient_accumulation_steps
        /\ (pc = "loop" /\ step % args.gradient_accumulation_steps = 0)
               => grad_count = 0

\* C9: the loader's per-minibatch size times gradient_accumulation_steps is the
\* configured --train_batch_size, the per-minibatch size is at least 1, and the
\* logged total is the configured --train_batch_size times the world size.
C9_TotalBatchSize ==
    (InTrain \/ exc = "ValueError") =>
        /\ loader_bs * argv.gradient_accumulation_steps = argv.train_batch_size
        /\ loader_bs >= 1
        /\ InTrain => logged_total = argv.train_batch_size
                          * (IF argv.local_rank # -1 THEN WorldSize ELSE 1)

\* C6: save_model followed by resume_training is a round trip.  Whenever
\* train() writes a checkpoint, resume_training applied to the written file and
\* a freshly set-up model returns the weights, optimizer state and scheduler
\* state that were saved, sets args.start_step to the saved global_step and
\* returns the test_best_acc handed to save_model, for a wrapped and for an
\* unwrapped model; and a run that resumed holds exactly the file's content.
C6_SavedThenResumed ==
    LET r == resume_training(args', setup(args').model, NewOptimizer,
                             NewScheduler, file')
    IN (n_saved' = n_saved + 1) =>
          /\ r.exc = NoError
          /\ ~HasModule(r.model)
          /\ r.model.w = Unwrapped(model').w
          /\ r.optimizer = optimizer'
          /\ r.scheduler = scheduler'
          /\ r.args.start_step = global_step'
          /\ r.test_best_acc = best_acc

C6_ResumedHoldsFile ==
    (pc = "train" /\ loaded) =>
        /\ exc = NoError
        /\ state_dict(model) = file.model_state_dict
        /\ optimizer = file.optimizer_state_dict
        /\ scheduler = file.scheduler_state_dict
        /\ args.start_step = file.global_step
        /\ args.test_best_acc = file.test_best_acc

\* C6: the save/resume round trip, at every checkpoint write and in every
\* resumed run
C6_RoundTrip == [][C6_SavedThenResumed]_vars /\ []C6_ResumedHoldsFile

\* a resumed run has loaded a checkpoint that a wrapped (DDP) model wrote after
\* at least two updates, the second-best accuracy being positive
C6_Witness ==
    /\ pc = "train" /\ loaded /\ exc = NoError
    /\ args.local_rank = 0
    /\ model.w >= 2
    /\ args.test_best_acc > 0

C10_UnknownDataset ==
    pc # "main" =>
        IF args.dataset \in {"dogs", "CUB", "nabirds", "INat2017"}
        THEN /\ exc # "Exception"
             /\ Unwrapped(model).num_classes =
                    (CASE args.dataset = "dogs" -> 120
                       [] args.dataset = "CUB" -> 200
                       [] args.dataset = "nabirds" -> 555
                       [] args.dataset = "INat2017" -> 5089)
        ELSE /\ pc = "raised"
             /\ exc = "Exception"
             /\ model = None
             /\ optimizer = None
             /\ ~loaded

\* setup() has raised for a dataset outside the four known names
C10_Witness ==
    /\ pc = "raised"
    /\ exc = "Exception"
    /\ args.dataset = "cars"

\* C11: with --fp16, --loss_scale determines the loss scaling train() uses:
\* 0 selects dynamic scaling, a positive power of 2 is the static scale.
C11_LossScaleFlag ==
    (InTrain /\ args.fp16) =>
        IF args.loss_scale = 0
        THEN loss_scaler.dynamic
        ELSE /\ ~loss_scaler.dynamic
             /\ loss_scaler.loss_scale = args.loss_scale

\* every rank has returned from train()
AllDone == \A r \in DRanks : dpc[r] = "done"

\* the ranks' sequences of collective calls agree as far as both have got, and
\* no rank is more than one call ahead of another
SameCalls ==
    \A r, q \in DRanks :
        /\ \A k \in 1 .. Len(calls[r]) :
               k <= Len(calls[q]) => calls[q][k] = calls[r][k]
        /\ Len(calls[r]) <= Len(calls[q]) + 1

\* unless all ranks are done, some rank that is not done can take a step
NoDeadlock == AllDone \/ \E r \in DRanks : dpc[r] # "done" /\ ~Blocked(r)

\* ranks that have left the training loop have the same global_step, and all
\* ranks that are done have made the same collective calls
SameExit ==
    \A r, q \in DRanks :
        (dpc[r] = "done" /\ dpc[q] = "done") =>
            dgs[r] = dgs[q] /\ calls[r] = calls[q]

\* C12: in a distributed run whose ranks see the same number of minibatches,
\* the ranks make the same sequence of collective calls and stay within one
\* call of each other, never deadlock although only rank 0 validates, leave
\* the loop at the same global_step, and every rank finishes (so every
\* collective entered by one rank is entered by all).
C12_Lockstep ==
    /\ [](SameCalls /\ NoDeadlock /\ SameExit)
    /\ <>AllDone

\* rank 0 is validating after its second update while rank 1 is already
\* blocked in the next collective
C12_Witness ==
    /\ dpc[0] = "valid"
    /\ dgs[0] >= 2
    /\ Len(calls[1]) = Len(calls[0]) + 1
    /\ Blocked(1)

====
